---- MODULE Spec2Model ----
(***************************************************************************)
(* A model of tumblerous' request dispatcher (app.go) and of the part of   *)
(* its leveled logger (log.go) that the dispatcher uses.                   *)
(*                                                                         *)
(* Byte strings whose length matters (response bodies, header values) are  *)
(* TLA+ strings.  Log messages are sequences of tokens, one token per      *)
(* literal piece of a format string or per formatted argument; the token   *)
(* "\n" is the newline character.                                          *)
(*                                                                         *)
(* Exchanges are served one after the other.  The variables w, req, sink,  *)
(* err, calls, invoked, hitCalls and result describe the exchange being    *)
(* served or the one served last; ServeHTTP starts the next one from a     *)
(* fresh Request and a fresh ResponseWriter, and sink then holds the lines *)
(* written since the exchange began (nothing in the program reads the sink *)
(* back).  There the Logger is used by one task at a time, and a log call  *)
(* is one step: the operators logf and write give its result.              *)
(*                                                                         *)
(* The Logger on its own is followed statement by statement, for tasks     *)
(* that call it concurrently: the variables mutex, buf and stack, with the *)
(* actions from CallTrace to Unlock.                                       *)
(***************************************************************************)
EXTENDS Integers, Sequences, FiniteSets, TLC

\* ---- bounds ---------------------------------------------------------------

MaxRoutes == 2          \* routes registered before Run
MaxHandlerOps == 3      \* calls a handler makes on its Request before it returns

\* ---- inputs ---------------------------------------------------------------

\* Route patterns handed to Get/Post/Put/Delete; "(" does not compile.
Patterns == {"/post/([0-9]+)", "/post/", "("}
\* Handler functions an application registers.
Handlers == {"hA", "hB"}
\* The method and the path of an inbound exchange.
Methods == {"GET", "HEAD", "POST", "PUT", "DELETE"}
Paths == {"/post/42", "/post/abc"}
\* What a handler passes to SetHeader/AddHeader, to OK/NotFound/Reply, to panic.
HandlerHeaders == {<<"Content-Type", "application/json">>,
                   <<"Content-Length", "99">>,
                   <<"Connection", "close">>,
                   <<"Connection", "keep-alive">>,
                   <<"Set-Cookie", "sid=1">>}
HandlerBodies == {"", "post:42"}
HandlerStatuses == {399, 400}
FaultValues == {<<"boom">>, <<"index out of range">>}

\* ---- log levels -----------------------------------------------------------

TRACE == 0
DEBUG == 1
INFO == 2
WARN == 3
ERROR == 4
CRITICAL == 5

levelStrings == <<"T", "D", "I", "W", "E", "C">>

\* Minimum levels NewApp is given.
AppLevels == {INFO, WARN, CRITICAL}

VARIABLES
  pc,        \* "startup", "fatal" (a panic ended the process), "idle", "handler"
  routes,    \* App.routes
  LogHits,   \* App.LogHits
  level,     \* App.Log.level
  sink,      \* the buffers written to App.Log.sink
  r,         \* the http.Request of the exchange
  w,         \* its http.ResponseWriter
  req,       \* its Request
  cur,       \* ServeHTTP's i: the index of the route whose handler runs
  args,      \* the arguments the handler was given
  err,       \* ServeHTTP's err: what protect returned
  ops,       \* the calls the running handler has made
  calls,     \* the Reply calls made on req: status, body, w's headers then
  invoked,   \* the handlers protect has called, with their routes' indices
  hitCalls,  \* the number of logHit calls
  result,    \* how ServeHTTP ended: "none", "returned", "panicked"
  mutex,     \* Logger.mutex: 0 when unlocked, else the task holding it
  buf,       \* Logger.buf, the scratch buffer of write
  stack,     \* per task, the log calls it is in, the innermost last
  ncalls,    \* per task, the log calls it has made
  levelCalls, \* NewLogger's lvl, then the lvl of every SetLevel call
  str        \* what the last call of Level.String was given and did

appVars == <<pc, routes, LogHits, r, w, req, cur, args, err, ops, calls,
             invoked, hitCalls, result>>

levelVars == <<levelCalls, str>>

logVars == <<mutex, buf, stack, ncalls, levelCalls, str>>

vars == <<pc, routes, LogHits, level, sink, r, w, req, cur, args, err, ops,
          calls, invoked, hitCalls, result, mutex, buf, stack, ncalls,
          levelCalls, str>>

\* The tasks that log to one Logger.
Tasks == {1, 2}

\* The Logger as NewLogger returns it, apart from sink and level: the zero
\* mutex, the nil buffer; no task is in a log call.
NewLogger ==
  /\ mutex = 0
  /\ buf = <<>>
  /\ stack = [t \in Tasks |-> <<>>]
  /\ ncalls = [t \in Tasks |-> 0]
  /\ levelCalls = <<level>>
  /\ str = [called |-> FALSE, l |-> 0, val |-> "", panicked |-> FALSE]

\* ---- strconv, fmt, time ---------------------------------------------------

Digits == <<"0", "1", "2", "3", "4", "5", "6", "7", "8", "9">>

RECURSIVE Itoa(_)
Itoa(n) ==
  IF n < 0 THEN "-" \o Itoa(0 - n)
  ELSE IF n < 10 THEN Digits[n + 1]
  ELSE Itoa(n \div 10) \o Digits[(n % 10) + 1]

Verbs == {"%s", "%d", "%q", "%v"}

\* fmt.Sprintf on a tokenised format: each verb takes the next argument.
RECURSIVE Sprintf(_, _)
Sprintf(format, a) ==
  IF format = <<>> THEN <<>>
  ELSE IF Head(format) \in Verbs /\ a # <<>>
       THEN Head(a) \o Sprintf(Tail(format), Tail(a))
       ELSE <<Head(format)>> \o Sprintf(Tail(format), a)

\* t.UTC().Format(time.RFC1123): the calendar part and the zone abbreviation.
FormatRFC1123(t) == <<t, "UTC">>

httpDate(t) ==
  LET f == FormatRFC1123(t)
  IN  IF f[2] = "UTC" THEN f[1] \o "GMT" ELSE f[1] \o f[2]

\* ---- regexp ---------------------------------------------------------------

\* regexp.Compile: whether the pattern compiles.
Compile(pattern) == pattern # "("

\* re.FindStringSubmatch(path): the whole match, then the capture groups;
\* the empty sequence (nil) when the pattern matches nowhere in path.
FindStringSubmatch(re, path) ==
  IF re = "/post/([0-9]+)"
  THEN IF path = "/post/42" THEN <<"/post/42", "42">> ELSE <<>>
  ELSE IF re = "/post/"
  THEN IF path \in {"/post/42", "/post/abc"} THEN <<"/post/">> ELSE <<>>
  ELSE <<>>

MatchString(re, path) == FindStringSubmatch(re, path) # <<>>

\* ---- the exchange, as the operators below pass it along -------------------

HeaderNames ==
  {"Date", "Content-Type", "Content-Length", "Connection", "Set-Cookie"}

NoHeaders == [n \in HeaderNames |-> <<>>]

\* The state an operation reads and writes; panicked/pval: a panic is
\* unwinding with value pval; ret: the value the last call returned.
Nil == [nil |-> TRUE, val |-> <<>>]

Exchange ==
  [r |-> r, req |-> req, w |-> w, sink |-> sink, err |-> err,
   calls |-> calls, hits |-> hitCalls,
   panicked |-> FALSE, pval |-> <<>>, ret |-> <<>>]

\* ---- Logger ---------------------------------------------------------------

fmtPrefix(lvl) == <<levelStrings[lvl + 1], " [now pid] (file:line) ">>

write(x, lvl, msg) ==
  LET b1 == fmtPrefix(lvl) \o msg
      b2 == IF Len(msg) > 0 /\ msg[Len(msg)] # "\n" THEN Append(b1, "\n") ELSE b1
  IN  [x EXCEPT !.sink = Append(@, b2)]

logf(x, lvl, format, a) ==
  IF lvl < level THEN [x EXCEPT !.ret = <<>>]
  ELSE LET msg == IF Len(a) > 0 THEN Sprintf(format, a) ELSE format
       IN  [write(x, lvl, msg) EXCEPT !.ret = msg]

Info(x, format, a) == logf(x, INFO, format, a)

Error(x, format, a) == logf(x, ERROR, format, a)

\* Critical without its panic: the entry is logged and the caller goes on.
CriticalReturns(x, format, a) == logf(x, CRITICAL, format, a)

Critical(x, format, a) ==
  LET x1 == logf(x, CRITICAL, format, a)
  IN  [x1 EXCEPT !.panicked = TRUE, !.pval = x1.ret]

\* ---- Request --------------------------------------------------------------

newRequest ==
  [status |-> 200, contentLength |-> 0,
   contentType |-> "text/html; charset=utf-8",
   date |-> "Mon, 02 Jan 2006 15:04:05 ", replied |-> FALSE]

\* http.Header.Set and http.Header.Add on w.Header().
SetHeader(x, name, val) == [x EXCEPT !.w.header[name] = <<val>>]

AddHeader(x, name, val) == [x EXCEPT !.w.header[name] = Append(@, val)]

\* w.WriteHeader(status): the status line goes out with the headers as they
\* are now.  w.Write(body): the body bytes handed to the exchange.
WriteHeader(x, status) ==
  [x EXCEPT !.w.wroteHeader =
              Append(@, [status |-> status, header |-> x.w.header])]

Write(x, body) == [x EXCEPT !.w.body = Append(@, body)]

\* The entity headers added to, not set over, what the handler left.
setEntityHeadersAdded(x) ==
  IF x.req.contentLength > 0
  THEN AddHeader(AddHeader(x, "Content-Type", x.req.contentType),
                 "Content-Length", Itoa(x.req.contentLength))
  ELSE x

\* Reply, lines 64-67: the entity headers of a non-empty body.
setEntityHeaders(x) ==
  IF x.req.contentLength > 0
  THEN SetHeader(SetHeader(x, "Content-Type", x.req.contentType),
                 "Content-Length", Itoa(x.req.contentLength))
  ELSE x

\* Connection: close for the statuses above 400 only.
setConnectionAbove400(x) ==
  IF x.req.status > 400 THEN SetHeader(x, "Connection", "close") ELSE x

\* Reply, lines 68-70.
setConnection(x) ==
  IF x.req.status >= 400 THEN SetHeader(x, "Connection", "close") ELSE x

\* The status line alone for a HEAD exchange, the body held back.
writeResponseHeadOnly(x, body) ==
  LET x1 == [x EXCEPT !.req.replied = TRUE]
      x2 == WriteHeader(x1, x1.req.status)
  IN  IF x2.req.contentLength > 0 /\ x2.r.Method # "HEAD"
      THEN Write(x2, body) ELSE x2

\* Reply, lines 71-75.
writeResponse(x, body) ==
  LET x1 == [x EXCEPT !.req.replied = TRUE]
      x2 == WriteHeader(x1, x1.req.status)
  IN  IF x2.req.contentLength > 0 THEN Write(x2, body) ELSE x2

\* Reply, lines 58-60.
guardReplied(x) ==
  IF x.req.replied
  THEN Critical(x, <<"this context has already been replied to!">>, <<>>)
  ELSE x

\* Reply recording the status and the length before it tests replied.
ReplyAssignsFirst(x, status, body) ==
  LET called == [x EXCEPT !.calls = Append(@, [status |-> status,
                                               body |-> body,
                                               before |-> x.w.header])]
      x1 == [called EXCEPT !.req.status = status,
                           !.req.contentLength = Len(body)]
      x0 == guardReplied(x1)
  IN  IF x0.panicked THEN x0
      ELSE LET x2 == SetHeader(x0, "Date", httpDate(x0.req.date))
           IN  writeResponse(setConnection(setEntityHeaders(x2)), body)

\* Reply, lines 57-76.
Reply(x, status, body) ==
  LET called == [x EXCEPT !.calls = Append(@, [status |-> status,
                                               body |-> body,
                                               before |-> x.w.header])]
      x0 == guardReplied(called)
  IN  IF x0.panicked THEN x0
      ELSE LET x1 == [x0 EXCEPT !.req.status = status,
                                !.req.contentLength = Len(body)]
               x2 == SetHeader(x1, "Date", httpDate(x1.req.date))
           IN  writeResponse(setConnection(setEntityHeaders(x2)), body)

OK(x, body) == Reply(x, 200, body)

NotFound(x, body) == Reply(x, 404, body)

logHit(x) ==
  LET bytesSent == IF x.req.contentLength > 0
                   THEN Itoa(x.req.contentLength) ELSE "-"
      x1 == Info(x,
                 <<"hit: ", "%s", " ", "%s", " ", "%s", " ", "%s", " ", "%d",
                   " ", "%s", "\n">>,
                 << <<x.r.RemoteAddr>>, <<x.r.Method>>, <<x.r.Path>>, <<x.r.Proto>>,
                    <<Itoa(x.req.status)>>, <<bytesSent>> >>)
  IN  [x1 EXCEPT !.hits = @ + 1]

\* ---- App ------------------------------------------------------------------

\* The method check without its HEAD clause.
methodEquals(m, routeMethod) == m = routeMethod

\* ServeHTTP, line 215: whether a route of method routeMethod is tried for an
\* exchange of method m.
methodMatches(m, routeMethod) ==
  ~(m # routeMethod /\ ~(m = "HEAD" /\ routeMethod = "GET"))

\* The loop keeping the last route that matches instead of the first.
RECURSIVE scanRoutesLast(_, _, _)
scanRoutesLast(i, method, path) ==
  IF i > Len(routes) THEN 0
  ELSE LET later == scanRoutesLast(i + 1, method, path)
       IN  IF later # 0 THEN later
           ELSE IF methodMatches(method, routes[i].method)
                   /\ MatchString(routes[i].re, path)
                THEN i ELSE 0

\* ServeHTTP's loop, lines 213-227: the index of the route whose handler is
\* run, scanning from i; 0 when the loop ends without running one.
RECURSIVE scanRoutes(_, _, _)
scanRoutes(i, method, path) ==
  IF i > Len(routes) THEN 0
  ELSE IF ~methodMatches(method, routes[i].method)
       THEN scanRoutes(i + 1, method, path)
  ELSE IF ~MatchString(routes[i].re, path)
       THEN scanRoutes(i + 1, method, path)
  ELSE i

\* runtime.Caller(i) for i = 2, 3, ...: the frames below the deferred function.
StackFrames == <<"! ", "panic.go:1", "\n", "! ", "app.go:262", "\n">>

\* protect's deferred function, lines 247-261, run while a panic unwinds:
\* the panic stops, e is set and the crash is logged.
recovered(x) ==
  LET e   == x.pval
      text == Sprintf(<<"handler crashed: ", "%v", "\n">>, <<e>>) \o StackFrames
      x1  == [x EXCEPT !.panicked = FALSE, !.pval = <<>>,
                       !.err = [nil |-> FALSE, val |-> e]]
  IN  Error(x1, text, <<>>)

\* ServeHTTP, lines 222-226, from the moment the handler has stopped: x is the
\* exchange as the handler left it, panicking or not.
afterHandler(x) ==
  LET x1 == IF x.panicked THEN recovered(x) ELSE [x EXCEPT !.err = Nil]
  IN  IF ~x1.err.nil THEN Reply(x1, 500, "Internal server error") ELSE x1

\* The fallback logging the hit whatever LogHits says.
noRouteAlwaysLogs(x) ==
  LET x1 == NotFound(x, "<h1>Not found</h1>")
  IN  IF x1.panicked THEN x1 ELSE logHit(x1)

\* ServeHTTP, lines 228-231.
noRoute(x) ==
  LET x1 == NotFound(x, "<h1>Not found</h1>")
  IN  IF x1.panicked THEN x1
      ELSE IF LogHits THEN logHit(x1) ELSE x1

\* ---- actions --------------------------------------------------------------

\* NewApp, as main calls it: NewApp(host, port, template_path, INFO).
Init ==
  /\ pc = "startup"
  /\ routes = <<>>
  /\ LogHits = TRUE
  /\ level = INFO
  /\ sink = <<>>
  /\ r = [Method |-> "", Path |-> "", Proto |-> "", RemoteAddr |-> ""]
  /\ w = [header |-> NoHeaders, wroteHeader |-> <<>>, body |-> <<>>]
  /\ req = newRequest
  /\ cur = 0
  /\ args = <<>>
  /\ err = Nil
  /\ ops = 0
  /\ calls = <<>>
  /\ invoked = <<>>
  /\ hitCalls = 0
  /\ result = "none"
  /\ NewLogger

\* What an operation did to the exchange becomes the state.
Commit(x) ==
  /\ r' = x.r
  /\ req' = x.req
  /\ w' = x.w
  /\ sink' = x.sink
  /\ err' = x.err
  /\ calls' = x.calls
  /\ hitCalls' = x.hits

\* ServeHTTP ends: it returns, or the panic in x leaves it.
Finish(x) ==
  /\ Commit(x)
  /\ ops' = 0
  /\ result' = IF x.panicked THEN "panicked" ELSE "returned"
  /\ pc' = "idle"

\* registerRoute storing the route before it looks at the compile error.
registerRouteStoresFirst(pattern, method, handler) ==
  /\ pc = "startup"
  /\ Len(routes) < MaxRoutes
  /\ routes' = Append(routes, [pattern |-> pattern,
                               re |-> IF Compile(pattern) THEN pattern ELSE "",
                               method |-> method, handler |-> handler])
  /\ LET x == IF ~Compile(pattern)
              THEN Critical(Exchange,
                            <<"could not compile route pattern: ", "%q">>,
                            << <<pattern>> >>)
              ELSE Exchange
     IN  /\ Commit(x)
         /\ pc' = IF x.panicked THEN "fatal" ELSE pc
  /\ UNCHANGED <<LogHits, level, cur, args, ops, invoked, result>>
  /\ UNCHANGED logVars

\* registerRoute, lines 236-242: the pattern is compiled, a compile error
\* goes to Critical, and what Critical lets through appends the route.  The
\* panic of Critical leaves registerRoute and ends the program's startup.
registerRoute(pattern, method, handler) ==
  /\ pc = "startup"
  /\ Len(routes) < MaxRoutes
  /\ LET x == IF ~Compile(pattern)
              THEN Critical(Exchange,
                            <<"could not compile route pattern: ", "%q">>,
                            << <<pattern>> >>)
              ELSE Exchange
     IN  /\ Commit(x)
         /\ IF x.panicked
            THEN pc' = "fatal" /\ UNCHANGED routes
            ELSE /\ routes' = Append(routes,
                                     [pattern |-> pattern,
                                      re |-> IF Compile(pattern) THEN pattern
                                             ELSE "",
                                      method |-> method, handler |-> handler])
                 /\ UNCHANGED pc
  /\ UNCHANGED <<LogHits, level, cur, args, ops, invoked, result>>
  /\ UNCHANGED logVars

Get(pattern, handler) == registerRoute(pattern, "GET", handler)

Post(pattern, handler) == registerRoute(pattern, "POST", handler)

Put(pattern, handler) == registerRoute(pattern, "PUT", handler)

Delete(pattern, handler) == registerRoute(pattern, "DELETE", handler)

\* The application clears or sets the exported field before Run.
SetLogHits(b) ==
  /\ pc = "startup"
  /\ LogHits # b
  /\ LogHits' = b
  /\ UNCHANGED <<pc, routes, level, sink, r, w, req, cur, args, err, ops,
                 calls, invoked, hitCalls, result>>
  /\ UNCHANGED logVars

\* Run: the server starts and hands every exchange to ServeHTTP, or
\* ListenAndServe fails and Run returns.
Run(listening) ==
  /\ pc = "startup"
  /\ LET x1 == Info(Exchange, <<"application started: listening on ", "%s">>,
                    << <<"127.0.0.1:9999">> >>)
     IN  IF listening
         THEN Commit(x1) /\ pc' = "idle"
         ELSE Commit(Error(x1, <<"listen tcp: address already in use">>, <<>>))
              /\ pc' = "fatal"
  /\ UNCHANGED <<routes, LogHits, level, cur, args, ops, invoked, result>>
  /\ UNCHANGED logVars

ServeHTTP(method, path) ==
  /\ pc = "idle"
  /\ LET x == [r |-> [Method |-> method, Path |-> path, Proto |-> "HTTP/1.1",
                      RemoteAddr |-> "10.0.0.1:4711"],
               req |-> newRequest,
               w |-> [header |-> NoHeaders, wroteHeader |-> <<>>, body |-> <<>>],
               sink |-> <<>>, err |-> Nil, calls |-> <<>>, hits |-> 0,
               panicked |-> FALSE, pval |-> <<>>, ret |-> <<>>]
         i == scanRoutes(1, method, path)
     IN  IF i = 0
         THEN /\ Finish(noRoute(x))
              /\ cur' = 0
              /\ args' = <<>>
              /\ invoked' = <<>>
         ELSE /\ Commit(x)
              /\ pc' = "handler"
              /\ cur' = i
              /\ args' = Tail(FindStringSubmatch(routes[i].re, path))
              /\ invoked' = <<[route |-> i, handler |-> routes[i].handler]>>
              /\ result' = "none"
              /\ ops' = 0
  /\ UNCHANGED <<routes, LogHits, level>>
  /\ UNCHANGED logVars

\* The running handler has made a call on its Request that left the exchange
\* as x: the handler goes on, or the call panicked and protect takes over.
HandlerCalled(x) ==
  /\ IF x.panicked
     THEN Finish(afterHandler(x))
     ELSE Commit(x) /\ ops' = ops + 1 /\ UNCHANGED <<pc, result>>
  /\ UNCHANGED <<routes, LogHits, level, cur, args, invoked>>
  /\ UNCHANGED logVars

InHandler == pc = "handler" /\ ops < MaxHandlerOps

HandlerSetHeader(h) == InHandler /\ HandlerCalled(SetHeader(Exchange, h[1], h[2]))

HandlerAddHeader(h) == InHandler /\ HandlerCalled(AddHeader(Exchange, h[1], h[2]))

HandlerOK(body) == InHandler /\ HandlerCalled(OK(Exchange, body))

HandlerNotFound(body) == InHandler /\ HandlerCalled(NotFound(Exchange, body))

HandlerReply(status, body) ==
  InHandler /\ HandlerCalled(Reply(Exchange, status, body))

\* The handler raises a runtime fault.
HandlerPanics(v) ==
  InHandler /\ HandlerCalled([Exchange EXCEPT !.panicked = TRUE, !.pval = v])

\* The handler returns: protect returns nil and ServeHTTP returns.
HandlerReturns ==
  /\ pc = "handler"
  /\ Finish(afterHandler(Exchange))
  /\ UNCHANGED <<routes, LogHits, level, cur, args, invoked>>
  /\ UNCHANGED logVars

\* A handler's calls, drawn from the given inputs.
HandlerStep(headers, bodies, statuses, faults) ==
  \/ \E h \in headers : HandlerSetHeader(h)
  \/ \E h \in headers : HandlerAddHeader(h)
  \/ \E b \in bodies : HandlerOK(b)
  \/ \E b \in bodies : HandlerNotFound(b)
  \/ \E s \in statuses, b \in bodies : HandlerReply(s, b)
  \/ \E v \in faults : HandlerPanics(v)
  \/ HandlerReturns

\* The application from its start: routes are registered, Run starts the
\* server, exchanges are dispatched to handlers.
Next ==
  \/ \E p \in Patterns, h \in Handlers : Get(p, h)
  \/ \E p \in Patterns, h \in Handlers : Post(p, h)
  \/ \E p \in Patterns, h \in Handlers : Put(p, h)
  \/ \E p \in Patterns, h \in Handlers : Delete(p, h)
  \/ \E b \in BOOLEAN : SetLogHits(b)
  \/ \E l \in BOOLEAN : Run(l)
  \/ \E m \in Methods, p \in Paths : ServeHTTP(m, p)
  \/ \E b \in {"post:42"} : HandlerOK(b)
  \/ \E v \in {<<"boom">>} : HandlerPanics(v)
  \/ HandlerReturns

Spec == Init /\ [][Next]_vars

\* Route tables an application has once it serves: none registered; Get
\* alone; Post, then Get.
ServingTables ==
  LET get  == [pattern |-> "/post/([0-9]+)", re |-> "/post/([0-9]+)",
               method |-> "GET", handler |-> "hA"]
      post == [pattern |-> "/post/", re |-> "/post/",
               method |-> "POST", handler |-> "hB"]
  IN  {<<>>, <<get>>, <<post, get>>}

\* The application once it serves, as the registrations, NewApp's level
\* argument, an assignment to LogHits and Run leave it.
InitServing ==
  /\ pc = "idle"
  /\ routes \in ServingTables
  /\ LogHits \in BOOLEAN
  /\ level \in AppLevels
  /\ sink = IF INFO < level THEN <<>>
            ELSE << <<"I", " [now pid] (file:line) ",
                      "application started: listening on ", "127.0.0.1:9999",
                      "\n">> >>
  /\ r = [Method |-> "", Path |-> "", Proto |-> "", RemoteAddr |-> ""]
  /\ w = [header |-> NoHeaders, wroteHeader |-> <<>>, body |-> <<>>]
  /\ req = newRequest
  /\ cur = 0
  /\ args = <<>>
  /\ err = Nil
  /\ ops = 0
  /\ calls = <<>>
  /\ invoked = <<>>
  /\ hitCalls = 0
  /\ result = "none"
  /\ NewLogger

NextServing ==
  \/ \E m \in Methods, p \in Paths : ServeHTTP(m, p)
  \/ HandlerStep(HandlerHeaders, HandlerBodies, HandlerStatuses, FaultValues)

SpecServing == InitServing /\ [][NextServing]_vars

\* ---- the Logger, statement by statement -----------------------------------

MaxLogCalls == 1        \* log calls a task makes, those of its closures apart

\* Minimum levels NewLogger is given; it takes any Level.
LoggerLevels == {TRACE, INFO, CRITICAL, CRITICAL + 1}

\* What a log function is called with: a format and its arguments; a closure
\* (first: the message it returns; logs: it logs to the same Logger before
\* it returns); any other value (first: what fmt.Sprint makes of it) and
\* further arguments.
LogArgs ==
  {[shape |-> "string", first |-> <<"started">>, args |-> <<>>, logs |-> FALSE],
   [shape |-> "string", first |-> <<>>, args |-> <<>>, logs |-> FALSE],
   [shape |-> "string", first |-> <<"done", "\n">>, args |-> <<>>,
    logs |-> FALSE],
   [shape |-> "string", first |-> <<"n=", "%d">>, args |-> << <<"7">> >>,
    logs |-> FALSE],
   [shape |-> "closure", first |-> <<"lazy">>, args |-> <<>>, logs |-> FALSE],
   [shape |-> "closure", first |-> <<"lazy">>, args |-> <<>>, logs |-> TRUE],
   [shape |-> "other", first |-> <<"42">>, args |-> << <<"x">> >>,
    logs |-> FALSE]}

\* The log calls of one task: every function with every argument.
LogCalls == (TRACE .. CRITICAL) \X LogArgs

\* The log calls of the tasks that log concurrently: every function, with a
\* format or a closure.
TaskLogCalls ==
  LET string  == [shape |-> "string", first |-> <<"started">>, args |-> <<>>,
                  logs |-> FALSE]
      closure == [shape |-> "closure", first |-> <<"lazy">>, args |-> <<>>,
                  logs |-> FALSE]
      logging == [closure EXCEPT !.logs = TRUE]
  IN  {<<TRACE, logging>>, <<DEBUG, string>>, <<INFO, string>>,
       <<WARN, logging>>, <<ERROR, closure>>, <<CRITICAL, string>>}

\* What a closure that logs calls: log.Warn("in closure").
ClosureLogArg ==
  [shape |-> "string", first |-> <<"in closure">>, args |-> <<>>,
   logs |-> FALSE]

\* strings.Repeat(s, n).
RECURSIVE Repeat(_, _)
Repeat(s, n) == IF n = 0 THEN <<>> ELSE s \o Repeat(s, n - 1)

\* The innermost log call of task t.
Top(t) == stack[t][Len(stack[t])]

At(t, p) == stack[t] # <<>> /\ Top(t).pc = p

SetTop(t, f) == [stack EXCEPT ![t] = [@ EXCEPT ![Len(@)] = f]]

\* The type switch of Trace ... Critical, lines 73-81 and 140-149: the call
\* of logf or logc that results, about to test the level.  The default
\* branch has formatted arg0 by then.  trace lists what the call has done,
\* line is the place in the sink of the buffer it wrote, since is the number
\* of buffers the sink held when the call began.
typeSwitch(lvl, a) ==
  [lvl    |-> lvl,
   shape  |-> a.shape,
   format |-> IF a.shape = "other"
              THEN a.first \o Repeat(<<" ", "%v">>, Len(a.args))
              ELSE a.first,
   args   |-> a.args,
   logs   |-> a.logs,
   pc     |-> "filter",
   msg    |-> <<>>,
   line   |-> 0,
   since  |-> Len(sink),
   trace  |-> IF a.shape = "other" THEN <<"Sprint">> ELSE <<>>]

\* logf or logc returns msg to the function that called it, which returns,
\* or panics with msg when it is Critical (line 150).
returns(f, msg) ==
  [f EXCEPT !.msg = msg,
            !.pc = IF f.lvl = CRITICAL THEN "panicked" ELSE "returned"]

\* Task t, in no log call, calls a log function.
logCall(t, lvl, a) ==
  /\ \/ stack[t] = <<>>
     \/ Len(stack[t]) = 1 /\ Top(t).pc \in {"returned", "panicked"}
  /\ ncalls[t] < MaxLogCalls
  /\ stack' = [stack EXCEPT ![t] = <<typeSwitch(lvl, a)>>]
  /\ ncalls' = [ncalls EXCEPT ![t] = @ + 1]
  /\ UNCHANGED <<level, sink, mutex, buf>>
  /\ UNCHANGED appVars
  /\ UNCHANGED levelVars

CallTrace(t, a) == logCall(t, TRACE, a)

CallDebug(t, a) == logCall(t, DEBUG, a)

CallInfo(t, a) == logCall(t, INFO, a)

CallWarn(t, a) == logCall(t, WARN, a)

CallError(t, a) == logCall(t, ERROR, a)

CallCritical(t, a) == logCall(t, CRITICAL, a)

\* The filter letting through what is above the minimum level only.
passesAbove(lvl) == lvl > level

\* logf line 218, logc line 236.
passes(lvl) == ~(lvl < level)

\* logf lines 218-225, logc lines 236-243: the level test, then
\* runtime.Caller.
Filter(t) ==
  /\ At(t, "filter")
  /\ LET f == Top(t)
     IN  stack' = SetTop(t,
           IF passes(f.lvl)
           THEN [f EXCEPT !.trace = @ \o <<"filter", "Caller">>,
                          !.pc = IF f.shape = "closure" THEN "closure"
                                 ELSE "format"]
           ELSE returns([f EXCEPT !.trace = Append(@, "filter")], <<>>))
  /\ UNCHANGED <<level, sink, mutex, buf, ncalls>>
  /\ UNCHANGED appVars
  /\ UNCHANGED levelVars

\* logf lines 226-229.
Format(t) ==
  /\ At(t, "format")
  /\ LET f == Top(t)
     IN  stack' = SetTop(t,
           IF Len(f.args) > 0
           THEN [f EXCEPT !.msg = Sprintf(f.format, f.args),
                          !.trace = Append(@, "Sprintf"),
                          !.pc = "lock"]
           ELSE [f EXCEPT !.msg = f.format, !.pc = "lock"])
  /\ UNCHANGED <<level, sink, mutex, buf, ncalls>>
  /\ UNCHANGED appVars
  /\ UNCHANGED levelVars

\* logc line 244: the closure is called.  One that logs is then in its own
\* log call; another returns its message.
EvalClosure(t) ==
  /\ At(t, "closure")
  /\ LET f == [Top(t) EXCEPT !.trace = Append(@, "closure")]
     IN  stack' =
           IF f.logs
           THEN [stack EXCEPT ![t] =
                   Append(SetTop(t, [f EXCEPT !.pc = "inclosure"])[t],
                          typeSwitch(WARN, ClosureLogArg))]
           ELSE SetTop(t, [f EXCEPT !.msg = f.format, !.pc = "lock"])
  /\ UNCHANGED <<level, sink, mutex, buf, ncalls>>
  /\ UNCHANGED appVars
  /\ UNCHANGED levelVars

\* The log call of the closure has returned and the closure returns its
\* message to logc.
ClosureReturns(t) ==
  /\ Len(stack[t]) > 1
  /\ Top(t).pc = "returned"
  /\ LET outer == stack[t][Len(stack[t]) - 1]
     IN  stack' = [stack EXCEPT ![t] =
                     Append(SubSeq(@, 1, Len(@) - 2),
                            [outer EXCEPT !.msg = outer.format, !.pc = "lock"])]
  /\ UNCHANGED <<level, sink, mutex, buf, ncalls>>
  /\ UNCHANGED appVars
  /\ UNCHANGED levelVars

\* A mutex anyone may lock at any time.
unlockedAlways == TRUE

\* sync.Mutex: Lock returns once the mutex is unlocked.
unlocked == mutex = 0

\* write line 251.
Lock(t) ==
  /\ At(t, "lock")
  /\ unlocked
  /\ mutex' = t
  /\ stack' = SetTop(t, [Top(t) EXCEPT !.trace = Append(@, "Lock"),
                                       !.pc = "reset"])
  /\ UNCHANGED <<level, sink, buf, ncalls>>
  /\ UNCHANGED appVars
  /\ UNCHANGED levelVars

\* write lines 253-254: the buffer is emptied and the prefix appended.
BufReset(t) ==
  /\ At(t, "reset")
  /\ buf' = fmtPrefix(Top(t).lvl)
  /\ stack' = SetTop(t, [Top(t) EXCEPT !.pc = "append"])
  /\ UNCHANGED <<level, sink, mutex, ncalls>>
  /\ UNCHANGED appVars
  /\ UNCHANGED levelVars

\* write lines 255-258: the message, and the newline it lacks.
BufAppend(t) ==
  /\ At(t, "append")
  /\ LET msg == Top(t).msg
         b1  == buf \o msg
     IN  buf' = IF Len(msg) > 0 /\ msg[Len(msg)] # "\n"
                THEN Append(b1, "\n") ELSE b1
  /\ stack' = SetTop(t, [Top(t) EXCEPT !.pc = "flush"])
  /\ UNCHANGED <<level, sink, mutex, ncalls>>
  /\ UNCHANGED appVars
  /\ UNCHANGED levelVars

\* write line 259: the buffer is handed to the sink.
SinkWrite(t) ==
  /\ At(t, "flush")
  /\ sink' = Append(sink, buf)
  /\ stack' = SetTop(t, [Top(t) EXCEPT !.trace = Append(@, "Write"),
                                       !.line = Len(sink) + 1,
                                       !.pc = "unlock"])
  /\ UNCHANGED <<level, mutex, buf, ncalls>>
  /\ UNCHANGED appVars
  /\ UNCHANGED levelVars

\* An Unlock that leaves the mutex to its holder.
releasedNever == mutex

\* The mutex after Unlock.
released == 0

\* write's deferred Unlock, line 252, as write returns; logf or logc
\* returns msg.
Unlock(t) ==
  /\ At(t, "unlock")
  /\ mutex' = released
  /\ stack' = SetTop(t, returns([Top(t) EXCEPT !.trace = Append(@, "Unlock")],
                                Top(t).msg))
  /\ UNCHANGED <<level, sink, buf, ncalls>>
  /\ UNCHANGED appVars
  /\ UNCHANGED levelVars

\* What task t does next, its calls drawn from cs.
TaskStep(t, cs) ==
  \/ \E c \in cs : c[1] = TRACE /\ CallTrace(t, c[2])
  \/ \E c \in cs : c[1] = DEBUG /\ CallDebug(t, c[2])
  \/ \E c \in cs : c[1] = INFO /\ CallInfo(t, c[2])
  \/ \E c \in cs : c[1] = WARN /\ CallWarn(t, c[2])
  \/ \E c \in cs : c[1] = ERROR /\ CallError(t, c[2])
  \/ \E c \in cs : c[1] = CRITICAL /\ CallCritical(t, c[2])
  \/ Filter(t)
  \/ Format(t)
  \/ EvalClosure(t)
  \/ ClosureReturns(t)
  \/ Lock(t)
  \/ BufReset(t)
  \/ BufAppend(t)
  \/ SinkWrite(t)
  \/ Unlock(t)

\* A Logger created by NewLogger with one of the given levels, not yet used.
InitLogger(levels) ==
  /\ pc = "startup"
  /\ routes = <<>>
  /\ LogHits = TRUE
  /\ level \in levels
  /\ sink = <<>>
  /\ r = [Method |-> "", Path |-> "", Proto |-> "", RemoteAddr |-> ""]
  /\ w = [header |-> NoHeaders, wroteHeader |-> <<>>, body |-> <<>>]
  /\ req = newRequest
  /\ cur = 0
  /\ args = <<>>
  /\ err = Nil
  /\ ops = 0
  /\ calls = <<>>
  /\ invoked = <<>>
  /\ hitCalls = 0
  /\ result = "none"
  /\ NewLogger

\* One task logs to a Logger of any level, with every kind of call.
InitLog == InitLogger(LoggerLevels)

NextLog == TaskStep(1, LogCalls)

SpecLog == InitLog /\ [][NextLog]_vars

\* Tasks log concurrently to the Logger main's NewApp creates.
InitLogTasks == InitLogger({INFO})

NextLogTasks == \E t \in Tasks : TaskStep(t, TaskLogCalls)

SpecLogTasks == InitLogTasks /\ [][NextLogTasks]_vars

\* The scheduler runs every task that can take a step, and a task waiting in
\* Lock gets the mutex once it stays unlocked.
SpecLogFair ==
  SpecLogTasks /\ \A t \in Tasks : WF_vars(TaskStep(t, TaskLogCalls))

\* ---- Level and the Logger's minimum level ---------------------------------

MaxSetLevels == 2       \* SetLevel calls on one Logger

\* The Level values handed to NewLogger, to SetLevel and to String: Level is
\* an int, so the levels and integers on either side of them.
LevelArgs == (TRACE - 2) .. (CRITICAL + 2)

\* GetLevel, lines 59-61.
GetLevel == level

\* SetLevel storing whatever it is given.
SetLevelUnchecked(lvl) ==
  /\ Len(levelCalls) <= MaxSetLevels
  /\ level' = lvl
  /\ levelCalls' = Append(levelCalls, lvl)
  /\ UNCHANGED <<sink, mutex, buf, stack, ncalls, str>>
  /\ UNCHANGED appVars

\* SetLevel, lines 64-69.
SetLevel(lvl) ==
  /\ Len(levelCalls) <= MaxSetLevels
  /\ level' = IF lvl < TRACE \/ lvl > CRITICAL THEN level ELSE lvl
  /\ levelCalls' = Append(levelCalls, lvl)
  /\ UNCHANGED <<sink, mutex, buf, stack, ncalls, str>>
  /\ UNCHANGED appVars

\* Level.String, lines 31-36: the guard, then the index into levelStrings,
\* which panics when it is outside the array.
String(l) ==
  IF l < 0 \/ l > Len(levelStrings)
  THEN [called |-> TRUE, l |-> l, val |-> "UNKNOWN", panicked |-> FALSE]
  ELSE IF l + 1 \in DOMAIN levelStrings
       THEN [called |-> TRUE, l |-> l, val |-> levelStrings[l + 1],
             panicked |-> FALSE]
       ELSE [called |-> TRUE, l |-> l, val |-> "", panicked |-> TRUE]

\* A Level is formatted: String is called on it.
CallString(l) ==
  /\ str' = String(l)
  /\ UNCHANGED <<level, sink, mutex, buf, stack, ncalls, levelCalls>>
  /\ UNCHANGED appVars

\* A Logger created with any Level; its level is set and read, and Levels
\* are formatted.
InitLevel == InitLogger(LevelArgs)

NextLevel ==
  \/ \E lvl \in LevelArgs : SetLevel(lvl)
  \/ \E l \in LevelArgs : CallString(l)

SpecLevel == InitLevel /\ [][NextLevel]_vars

\* ---- properties -----------------------------------------------------------

\* ServeHTTP has ended for the exchange the variables describe.
Served == pc = "idle" /\ result # "none"

\* An exchange is being served or was served.
Dispatched == pc = "handler" \/ Served

\* The sink's lines of a level, and its hit lines.
LinesOf(letter) == {i \in DOMAIN sink : sink[i][1] = letter}

HitLines == {i \in LinesOf("I") : sink[i][3] = "hit: "}

\* The routes a dispatch of the exchange may select: method and pattern match.
Eligible ==
  {i \in DOMAIN routes :
     /\ \/ routes[i].method = r.Method
        \/ r.Method = "HEAD" /\ routes[i].method = "GET"
     /\ FindStringSubmatch(routes[i].re, r.Path) # <<>>}

Least(S) == CHOOSE i \in S : \A j \in S : i <= j

\* The handler faulted: protect returned a non-nil error.
Faulted == Served /\ ~err.nil

\* C1: when the handler faults, whatever it did before, the exchange ends
\* with exactly one response written, of status 500, and (the minimum level
\* letting ERROR through) exactly one ERROR entry in the log.
C1_FaultGivesOne500 ==
  Faulted =>
    /\ Len(w.wroteHeader) = 1
    /\ w.wroteHeader[1].status = 500
    /\ level <= ERROR => Cardinality(LinesOf("E")) = 1

\* C2: ServeHTTP returns normally whatever the handler does; no panic
\* leaves it.
C2_ServeHTTPReturns == result # "panicked"

\* C3: on one Request the status line and the body are written at most once,
\* by the first Reply call; every later call writes a CRITICAL entry and
\* nothing else.
C3_ReplyWritesOnce ==
  /\ Len(w.wroteHeader) <= 1
  /\ Len(w.body) <= 1
  /\ calls # <<>> =>
       /\ w.wroteHeader # <<>>
       /\ w.wroteHeader[1].status = calls[1].status
       /\ w.body = IF calls[1].body = "" THEN <<>> ELSE <<calls[1].body>>
       /\ Cardinality(LinesOf("C")) = Len(calls) - 1

C3_Witness ==
  /\ Len(calls) = 3
  /\ Len(w.wroteHeader) = 1
  /\ Len(w.body) = 1
  /\ Cardinality(LinesOf("C")) = 2

\* C4: with LogHits set, every exchange ServeHTTP handles makes exactly one
\* logHit call, matched or not.
C4_OneHitPerExchange == (Served /\ LogHits) => hitCalls = 1

\* C5: ServeHTTP invokes at most one handler, and when some route matches
\* method and path, it is the handler of the first such route.
C5_FirstMatchWins ==
  /\ Len(invoked) <= 1
  /\ Dispatched =>
       IF Eligible = {} THEN invoked = <<>>
       ELSE invoked = <<[route |-> Least(Eligible),
                         handler |-> routes[Least(Eligible)].handler]>>

C5_Witness ==
  /\ Served
  /\ Eligible = {1, 2}
  /\ routes[1].handler # routes[2].handler
  /\ invoked = <<[route |-> 1, handler |-> routes[1].handler]>>

\* C6: the route dispatched to has the exchange's method, or is a GET route
\* for a HEAD exchange; and a route whose pattern matches the path is never
\* passed over when its method is the exchange's, or GET for HEAD.
C6_MethodCheck ==
  Dispatched =>
    /\ invoked # <<>> =>
         LET m == routes[invoked[1].route].method
         IN  m = r.Method \/ (r.Method = "HEAD" /\ m = "GET")
    /\ \A i \in DOMAIN routes :
         (/\ FindStringSubmatch(routes[i].re, r.Path) # <<>>
          /\ \/ routes[i].method = r.Method
             \/ r.Method = "HEAD" /\ routes[i].method = "GET")
         => /\ invoked # <<>>
            /\ invoked[1].route <= i

C6_Witness ==
  /\ Served
  /\ r.Method = "HEAD"
  /\ Len(routes) = 2
  /\ routes[1].method = "POST"
  /\ routes[1].pattern = routes[2].pattern
  /\ routes[2].method = "GET"
  /\ invoked = <<[route |-> 2, handler |-> routes[2].handler]>>

\* The response Reply rendered and the call that rendered it.
Rendered == w.wroteHeader # <<>> /\ calls # <<>>

Range(f) == {f[i] : i \in DOMAIN f}

\* The hit line of the exchange when it ends with the fallback reply.
NotFoundHitLine ==
  <<"I", " [now pid] (file:line) ", "hit: ", r.RemoteAddr, " ", r.Method, " ",
    r.Path, " ", r.Proto, " ", "404", " ", "18", "\n">>

\* What the fallback does whatever the logger's level: no handler, one 404
\* response with the fixed body, one logHit call iff LogHits.
NoRouteReply ==
  /\ invoked = <<>>
  /\ Len(w.wroteHeader) = 1
  /\ w.wroteHeader[1].status = 404
  /\ w.body = <<"<h1>Not found</h1>">>
  /\ hitCalls = IF LogHits THEN 1 ELSE 0

\* C7, as claimed: when no route matches, no handler is invoked, one 404
\* response with the fixed body is written, the hit is logged once iff
\* LogHits, and with LogHits the hit entry reaches the sink.
C7_HitReachesSink ==
  (Served /\ Eligible = {}) =>
    /\ NoRouteReply
    /\ LogHits => Cardinality(HitLines) = 1

\* C7, amended: the hit entry reaches the sink iff LogHits is set and the
\* logger's minimum level is at most INFO.
C7_NoRoute ==
  (Served /\ Eligible = {}) =>
    /\ NoRouteReply
    /\ sink = IF LogHits /\ level <= INFO THEN <<NotFoundHitLine>> ELSE <<>>

C7_Witness ==
  /\ Served
  /\ Eligible = {}
  /\ LogHits
  /\ level = INFO
  /\ hitCalls = 1
  /\ Cardinality(HitLines) = 1

\* C8, as claimed: whatever headers were set before Reply, an empty body
\* leaves the response without Content-Type and Content-Length, and a
\* non-empty body gives it both, Content-Length being the body's length, with
\* exactly the body written.
C8_EntityHeaders ==
  Rendered =>
    LET h == w.wroteHeader[1].header
        b == calls[1].body
    IN  IF Len(b) = 0
        THEN /\ h["Content-Type"] = <<>>
             /\ h["Content-Length"] = <<>>
             /\ w.body = <<>>
        ELSE /\ h["Content-Type"] # <<>>
             /\ h["Content-Length"] = <<Itoa(Len(b))>>
             /\ w.body = <<b>>

\* C8, amended: for an empty body Reply adds neither header and writes no
\* body, so the response carries them as the handler left them; for a
\* non-empty body it carries one Content-Type and one Content-Length, the
\* body's length, with exactly the body written.
C8_EntityHeadersFromReply ==
  Rendered =>
    LET h == w.wroteHeader[1].header
        b == calls[1].body
    IN  IF Len(b) = 0
        THEN /\ h["Content-Type"] = calls[1].before["Content-Type"]
             /\ h["Content-Length"] = calls[1].before["Content-Length"]
             /\ w.body = <<>>
        ELSE /\ Len(h["Content-Type"]) = 1
             /\ h["Content-Length"] = <<Itoa(Len(b))>>
             /\ w.body = <<b>>
             /\ Len(w.body[1]) = Len(b)

C8_Witness ==
  /\ Rendered
  /\ calls[1].body = ""
  /\ w.wroteHeader[1].header["Content-Type"] = <<"application/json">>
  /\ w.body = <<>>

\* C9, as claimed: a response rendered through Reply carries Connection:
\* close iff its status is at least 400.
C9_ConnectionCloseIff ==
  Rendered =>
    ("close" \in Range(w.wroteHeader[1].header["Connection"])
       <=> w.wroteHeader[1].status >= 400)

\* C9, amended: for a status of at least 400 the response's Connection
\* header is close, whatever the handler set; below 400 Reply leaves the
\* header as the handler left it.
C9_ConnectionClose ==
  Rendered =>
    LET h == w.wroteHeader[1].header
    IN  IF w.wroteHeader[1].status >= 400
        THEN h["Connection"] = <<"close">>
        ELSE h["Connection"] = calls[1].before["Connection"]

C9_Witness ==
  /\ Rendered
  /\ w.wroteHeader[1].status = 400
  /\ calls[1].before["Connection"] = <<"keep-alive">>
  /\ w.wroteHeader[1].header["Connection"] = <<"close">>

\* C10: for a non-empty body the rendered Content-Type is the default when
\* the handler set none, and the handler's when it set one before Reply.
C10_ContentTypeOverride ==
  (Rendered /\ Len(calls[1].body) > 0) =>
    w.wroteHeader[1].header["Content-Type"] =
      IF calls[1].before["Content-Type"] = <<>>
      THEN <<"text/html; charset=utf-8">>
      ELSE calls[1].before["Content-Type"]

\* A HEAD exchange went to a GET route whose handler replied OK with a
\* non-empty body.
HeadRepliedOK ==
  /\ r.Method = "HEAD"
  /\ invoked # <<>>
  /\ routes[invoked[1].route].method = "GET"
  /\ Rendered
  /\ calls[1].status = 200
  /\ Len(calls[1].body) > 0

\* C11, as claimed: a HEAD exchange dispatched to a GET route whose handler
\* replies OK with a non-empty body gets status 200, no body bytes written by
\* Reply, and no Content-Length header.
C11_HeadNoBody ==
  HeadRepliedOK =>
    /\ w.wroteHeader[1].status = 200
    /\ w.body = <<>>
    /\ w.wroteHeader[1].header["Content-Length"] = <<>>

\* C11, amended: Reply does not look at the method, so the HEAD exchange gets
\* status 200, Content-Length set to the body's length, and the body handed
\* to the response writer, as a GET exchange does.
C11_HeadAsGet ==
  HeadRepliedOK =>
    /\ w.wroteHeader[1].status = 200
    /\ w.body = <<calls[1].body>>
    /\ w.wroteHeader[1].header["Content-Length"] = <<Itoa(Len(calls[1].body))>>

C11_Witness ==
  /\ HeadRepliedOK
  /\ Served
  /\ r.Path = "/post/42"
  /\ w.body = <<"post:42">>
  /\ w.wroteHeader[1].header["Content-Length"] = <<"7">>

\* C19: a Reply call on a Request that has been replied to changes nothing
\* of what the Request records or of the response: status, contentLength,
\* replied and the headers stay as the first Reply left them, so that a hit
\* logged afterwards would report the first reply's status and size.
C19_RejectedReplyKeepsState ==
  /\ [](calls # <<>> =>
          /\ req.replied
          /\ req.status = calls[1].status
          /\ req.contentLength = Len(calls[1].body))
  /\ [][(req.replied /\ calls' # calls /\ Len(calls') > 1)
          => (req' = req /\ w' = w)]_vars

C19_Witness ==
  /\ Len(calls) >= 2
  /\ calls[2].status # calls[1].status
  /\ Len(calls[2].body) # Len(calls[1].body)
  /\ req.replied
  /\ req.status = calls[1].status
  /\ req.contentLength = Len(calls[1].body)
  /\ Len(w.wroteHeader) = 1

\* The last entry of the sink reports a pattern that does not compile.
CompileFailureLogged(snk) ==
  /\ snk # <<>>
  /\ snk[Len(snk)][1] = "C"
  /\ snk[Len(snk)][3] = "could not compile route pattern: "

\* C15: a registration whose pattern compiles appends exactly one route at
\* the end of the table and leaves the routes before it as they were; one
\* whose pattern does not compile raises the critical failure and leaves the
\* table unchanged, so no route without a matcher is ever stored.
C15_RegisterRoute ==
  /\ [](\A i \in DOMAIN routes :
          Compile(routes[i].pattern) /\ routes[i].re = routes[i].pattern)
  /\ [][(pc = "startup" /\ routes' # routes)
          => /\ Len(routes') = Len(routes) + 1
             /\ SubSeq(routes', 1, Len(routes)) = routes
             /\ pc' = "startup"
             /\ sink' = sink]_vars
  /\ [][(pc = "startup" /\ sink' # sink /\ CompileFailureLogged(sink'))
          => (routes' = routes /\ pc' = "fatal")]_vars

C15_Witness ==
  /\ pc = "fatal"
  /\ Len(routes) = 1
  /\ CompileFailureLogged(sink)

\* The response of an exchange whose handler faults before calling anything
\* on its Request.
FaultResponse ==
  [header |-> [n \in HeaderNames |->
                 CASE n = "Date" -> <<httpDate(newRequest.date)>>
                   [] n = "Content-Type" -> <<newRequest.contentType>>
                   [] n = "Content-Length" -> <<"21">>
                   [] n = "Connection" -> <<"close">>
                   [] OTHER -> <<>>],
   wroteHeader |-> <<500>>,
   body |-> <<"Internal server error">>]

\* C16: the response of an exchange whose handler faulted is the same for
\* every faulting handler, whatever the fault value and whatever the handler
\* set before: status 500, the fixed body, nothing the handler supplied.
\* Being the same for any two handlers is being equal to the response of the
\* handler that faults at once.
C16_FaultResponseFixed ==
  Faulted =>
    /\ w.header = FaultResponse.header
    /\ Len(w.wroteHeader) = 1
    /\ w.wroteHeader[1].status = FaultResponse.wroteHeader[1]
    /\ w.wroteHeader[1].header = FaultResponse.header
    /\ w.body = FaultResponse.body

\* The handler that faults at once gets the fixed response.
C16_FaultAtOnce ==
  /\ Faulted
  /\ calls = <<[status |-> 500, body |-> "Internal server error",
                before |-> NoHeaders]>>
  /\ w.wroteHeader[1].header = FaultResponse.header
  /\ w.body = FaultResponse.body

\* A handler that added a cookie and faulted without replying: the 500
\* response carries the cookie.
C16_CookieIn500 ==
  /\ Faulted
  /\ Len(calls) = 1
  /\ w.wroteHeader[1].status = 500
  /\ w.wroteHeader[1].header["Set-Cookie"] = <<"sid=1">>

\* ---- properties of the Logger ----------------------------------------------

\* The log calls in progress or just ended.
Frames == UNION {Range(stack[t]) : t \in Tasks}

\* How often a log call has done e.
Count(f, e) == Cardinality({i \in DOMAIN f.trace : f.trace[i] = e})

Ended(f) == f.pc \in {"returned", "panicked"}

\* The buffers a closure's own log call writes.
ClosureWrites(f) ==
  IF f.shape = "closure" /\ f.logs /\ ~(WARN < level) THEN 1 ELSE 0

\* C12: a call of Trace, Debug, Info, Warn or Error below the minimum level
\* writes nothing to the sink, does not lock the mutex and does not call the
\* closure it was given; a call at or above the minimum level has, when it
\* returns, written exactly one buffer to the sink and called its closure
\* exactly once.
C12_FilteredCallsDoNothing ==
  \A f \in Frames :
    f.lvl < CRITICAL =>
      /\ Count(f, "Write") <= 1
      /\ Count(f, "closure") <= 1
      /\ (f.lvl < level /\ f.pc # "filter") =>
           /\ f.pc = "returned"
           /\ f.msg = <<>>
           /\ Count(f, "Write") = 0
           /\ Count(f, "Lock") = 0
           /\ Count(f, "closure") = 0
           /\ f.line = 0
           /\ Len(sink) = f.since
      /\ (~(f.lvl < level) /\ f.pc = "returned") =>
           /\ Count(f, "Write") = 1
           /\ Count(f, "Lock") = 1
           /\ Count(f, "closure") = IF f.shape = "closure" THEN 1 ELSE 0
           /\ f.line \in DOMAIN sink
           /\ Len(sink) = f.since + 1 + ClosureWrites(f)

C12_Witness ==
  /\ level = INFO
  /\ Len(stack[1]) = 1
  /\ Top(1).lvl = INFO
  /\ Top(1).shape = "closure"
  /\ Top(1).pc = "returned"
  /\ Top(1).msg = <<"lazy">>
  /\ Count(Top(1), "closure") = 1
  /\ sink # <<>>
  /\ sink[Len(sink)] = <<"I", " [now pid] (file:line) ", "lazy", "\n">>

\* The buffer write hands to the sink for a call of level lvl and message
\* msg when no other task touches the Logger.
Line(lvl, msg) == write([sink |-> <<>>], lvl, msg).sink[1]

\* Task t is in write, between emptying the buffer and the end of sink.Write.
Writing(t) == At(t, "reset") \/ At(t, "append") \/ At(t, "flush")

\* The messages of the concurrent tasks' calls.
TaskMessages == {c[2].first : c \in TaskLogCalls} \cup {ClosureLogArg.first}

\* C13: however the log calls of concurrent tasks interleave, at most one
\* task is between the reset of the scratch buffer and the end of
\* sink.Write, and every buffer handed to the sink is the prefix and the
\* message of one log call, whole and unmixed.
C13_OneWriterAtATime ==
  /\ Cardinality({t \in Tasks : Writing(t)}) <= 1
  /\ \A t \in Tasks :
       /\ Writing(t) => mutex = t
       /\ At(t, "flush") => buf = Line(Top(t).lvl, Top(t).msg)
  /\ \A f \in Frames : f.line # 0 => sink[f.line] = Line(f.lvl, f.msg)
  /\ \A i \in DOMAIN sink :
       \E lvl \in TRACE .. CRITICAL, msg \in TaskMessages :
         sink[i] = Line(lvl, msg)

C13_Witness ==
  /\ At(1, "flush")
  /\ At(2, "lock")
  /\ mutex = 1
  /\ Top(1).lvl # Top(2).lvl
  /\ Top(1).msg # Top(2).msg
  /\ sink = <<Line(WARN, <<"in closure">>)>>

\* C14: every call of Critical, whatever minimum level the Logger holds,
\* writes the CRITICAL entry and only then panics with the message; it never
\* panics without having written the entry and never returns normally.
C14_CriticalWritesThenPanics ==
  \A f \in Frames :
    f.lvl = CRITICAL =>
      /\ f.pc # "returned"
      /\ f.pc = "panicked" =>
           /\ Count(f, "Write") = 1
           /\ f.line \in DOMAIN sink
           /\ sink[f.line] = Line(CRITICAL, f.msg)

\* C17: every buffer write hands to the sink ends with a newline, whatever
\* the message, the empty message included, and a message that ends with a
\* newline does not get a second one.
C17_TrailingNewline ==
  /\ \A i \in DOMAIN sink :
       /\ sink[i][Len(sink[i])] = "\n"
       /\ Len(sink[i]) > 3 => sink[i][Len(sink[i]) - 1] # "\n"
  /\ \A f \in Frames :
       f.line # 0 =>
         sink[f.line] = IF f.msg # <<>> /\ f.msg[Len(f.msg)] = "\n"
                        THEN fmtPrefix(f.lvl) \o f.msg
                        ELSE fmtPrefix(f.lvl) \o f.msg \o <<"\n">>

\* A message that ends with a newline has been written as it is.
C17_NewlineKept ==
  /\ Len(stack[1]) = 1
  /\ Top(1).msg = <<"done", "\n">>
  /\ sink # <<>>
  /\ Top(1).line = Len(sink)
  /\ sink[Len(sink)] = fmtPrefix(Top(1).lvl) \o <<"done", "\n">>

\* C18: in a call of Trace, Debug, Info, Warn or Error below the minimum
\* level, the level is tested before anything is formatted and before the
\* call site is resolved, whatever the first argument is: a format, a
\* closure, or any other value.  Such a call does nothing before the test
\* and nothing after it.
C18_FilterBeforeFormatting ==
  \A f \in Frames :
    (f.lvl < CRITICAL /\ f.lvl < level) => f.trace \in {<<>>, <<"filter">>}

\* A call below the minimum level with a format or a closure has tested the
\* level and done nothing else.
C18_FilteredFirst ==
  /\ Len(stack[1]) = 1
  /\ Top(1).lvl < level
  /\ Top(1).shape = "closure"
  /\ Top(1).pc = "returned"
  /\ Top(1).trace = <<"filter">>

\* Task t is in write: from Lock's return to the deferred Unlock.
InWrite(t) ==
  At(t, "reset") \/ At(t, "append") \/ At(t, "flush") \/ At(t, "unlock")

\* Where in its trace a log call did e; 0 when it has not.
Index(f, e) ==
  IF Count(f, e) = 0 THEN 0
  ELSE CHOOSE i \in DOMAIN f.trace : f.trace[i] = e

\* The mutex is held by a task exactly while the task is in write, and a log
\* call has resolved its call site and run its closure before it locks.
MutexOnlyInWrite ==
  /\ mutex \in {0} \cup Tasks
  /\ \A t \in Tasks : mutex = t <=> InWrite(t)
  /\ \A f \in Frames :
       /\ f.pc = "inclosure" => Count(f, "Lock") = 0
       /\ Count(f, "Lock") = 1 =>
            /\ Index(f, "Caller") # 0
            /\ Index(f, "Caller") < Index(f, "Lock")
            /\ Index(f, "closure") < Index(f, "Lock")
            /\ f.shape = "closure" => Index(f, "closure") # 0

\* The call task t made has passed the filter and has not ended; it has
\* ended after writing its buffer.
Passed(t) ==
  stack[t] # <<>> /\ stack[t][1].pc \notin {"filter", "returned", "panicked"}

Written(t) ==
  stack[t] # <<>> /\ Ended(stack[t][1]) /\ stack[t][1].line \in DOMAIN sink

\* C20: the mutex is held only inside write and released when write is
\* left, the closure and the call site resolution coming before the Lock;
\* so, the tasks being scheduled fairly, every log call that passes the
\* filter ends with its buffer written, the calls whose closure logs to the
\* same Logger included.
C20_WritesComplete ==
  /\ []MutexOnlyInWrite
  /\ \A t \in Tasks : Passed(t) ~> Written(t)

C20_Witness ==
  /\ \A t \in Tasks :
       /\ Written(t)
       /\ stack[t][1].logs
       /\ Count(stack[t][1], "closure") = 1
  /\ Len(sink) = 4
  /\ mutex = 0

\* ---- properties of Level ---------------------------------------------------

InRange(lvl) == lvl \in TRACE .. CRITICAL

\* The last of the levels in s that is in TRACE..CRITICAL; s[1] when none is.
RECURSIVE LastInRange(_)
LastInRange(s) ==
  IF Len(s) = 1 \/ InRange(s[Len(s)]) THEN s[Len(s)]
  ELSE LastInRange(SubSeq(s, 1, Len(s) - 1))

\* C21: SetLevel with a level outside TRACE..CRITICAL leaves the minimum
\* level as it is, and with a level inside sets it to that level; so for a
\* Logger created with a level in TRACE..CRITICAL, GetLevel returns, after
\* any SetLevel calls, a level in TRACE..CRITICAL: the argument of the last
\* call that was in range, or the initial level when there was none.
C21_SetLevelRange ==
  /\ [][levelCalls' # levelCalls =>
          LET lvl == levelCalls'[Len(levelCalls')]
          IN  level' = IF InRange(lvl) THEN lvl ELSE level]_vars
  /\ [](/\ GetLevel = LastInRange(levelCalls)
        /\ InRange(levelCalls[1]) => InRange(GetLevel))

C21_Witness ==
  /\ Len(levelCalls) = 3
  /\ InRange(levelCalls[1])
  /\ InRange(levelCalls[2])
  /\ levelCalls[2] # levelCalls[1]
  /\ levelCalls[3] = CRITICAL + 1
  /\ GetLevel = levelCalls[2]

\* C22: Level.String returns the letter T, D, I, W, E or C for the levels
\* TRACE to CRITICAL and "UNKNOWN" for every other integer, CRITICAL + 1
\* and the negative values included, and never indexes outside the six
\* entries of levelStrings.
C22_StringTotal ==
  str.called =>
    /\ ~str.panicked
    /\ str.val = IF InRange(str.l)
                 THEN <<"T", "D", "I", "W", "E", "C">>[str.l + 1]
                 ELSE "UNKNOWN"

\* String has named a level, and answered UNKNOWN below and above the table.
C22_Letter == str.called /\ str.l = CRITICAL /\ str.val = "C"

C22_UnknownBelow == str.called /\ str.l = TRACE - 1 /\ str.val = "UNKNOWN"

C22_UnknownAbove == str.called /\ str.l = CRITICAL + 2 /\ str.val = "UNKNOWN"

====
